---- MODULE Spec2Model ----
(***************************************************************************)
(* las-route-scraper: the route cache of route_server.py (a background     *)
(* scraper thread that merges scraped schedule rows into route_cache while *)
(* the Flask handler GET /routes reads it) and the route cache and poll    *)
(* cycle of tracker.py (fetch_airport_routes, get_live_route and the       *)
(* arrival/departure classification of the main loop).                     *)
(*                                                                         *)
(* Time is counted in whole minutes since midnight of day 0.  A datetime   *)
(* is that number; a clock text ("4:20 PM") is a minute of the day, which  *)
(* the parsers combine with the date of the current time, as strptime does *)
(* in the source.  An optional value is << >> (Python's None) or <<v>>.    *)
(***************************************************************************)
EXTENDS Integers, Sequences, FiniteSets, TLC

VARIABLES
    now,                \* the wall clock (datetime.now(), time.time())
    \* ---- route_server.py
    srv_route_cache,    \* route_cache: callsign -> route record
    srv_pc,             \* where background_scraper stands
    srv_current_time,   \* scrape_airport_routes: current_time
    srv_new_routes,     \* scrape_airport_routes: new_routes
    srv_to_remove,      \* scrape_airport_routes: to_remove, what is left to pop
    srv_wake_at,        \* when time.sleep(ROUTE_REFRESH_SECONDS) ends
    srv_cycles,         \* calls of scrape_airport_routes so far
    srv_pre_merge,      \* route_cache as it was when the running call began
    response,           \* body of the last GET /routes served in this cycle
    response_pc,        \* srv_pc when that response was built
    \* ---- tracker.py
    route_cache,        \* route_cache: callsign -> route record
    last_route_fetch,   \* last_route_fetch, in minutes
    trk_pc,             \* where the main loop stands
    trk_cycles,         \* calls of fetch_airport_routes so far
    trk_current_time,   \* fetch_airport_routes: current_time of the last call
    trk_new_routes,     \* fetch_airport_routes: new_routes of the last call
    trk_pre_merge,      \* route_cache as it was when the last call began
    trk_offered,        \* callsigns of the rows of the last call whose time parsed
    raw_data,           \* raw_data: the state vectors of the last poll
    current_arrivals,   \* current_arrivals
    current_departures, \* current_departures
    board,              \* the arrival rows draw_sec has drawn in this iteration
    rwy_call,           \* the arguments of a call of get_runway
    rwy_result,         \* what that call returned
    live_call,          \* the argument of a call of get_live_route
    live_result,        \* what that call returned
    listed_before       \* the vectors the two lists held when this iteration's poll began

srv_vars == <<srv_route_cache, srv_pc, srv_current_time, srv_new_routes,
              srv_to_remove, srv_wake_at, srv_cycles, srv_pre_merge,
              response, response_pc>>

trk_vars == <<route_cache, last_route_fetch, trk_pc, trk_cycles, trk_current_time,
              trk_new_routes, trk_pre_merge, trk_offered>>

look_vars == <<live_call, live_result>>

poll_vars == <<raw_data, current_arrivals, current_departures, board, rwy_call, rwy_result,
               look_vars, listed_before>>

vars == <<now, srv_vars, trk_vars, poll_vars>>

(***************************************************************************)
(* Program constants.                                                      *)
(***************************************************************************)
MinutesPerDay == 1440
ROUTE_REFRESH_MINUTES == 5
AdmitWindowMinutes == 60
GraceMinutes == 30

(***************************************************************************)
(* Bounds of the model.                                                    *)
(***************************************************************************)
DayStart == 600             \* a run that starts at 10:00
NightStart == 1436          \* a run that starts at 23:56 and crosses midnight
MaxElapsed == 40            \* minutes of wall clock a run covers
MaxCycles == 2              \* refresh cycles a run starts
MaxRows == 2                \* schedule rows one scrape returns
MaxScrapeMinutes == 1       \* minutes the browser may take before the rows are read

Starts == {DayStart, NightStart}

(***************************************************************************)
(* Python values.                                                          *)
(***************************************************************************)
None == << >>
Some(v) == <<v>>
Val(x) == x[1]

EmptyDict == [k \in {} |-> None]
dict_set(d, k, v) == [x \in DOMAIN d \cup {k} |-> IF x = k THEN v ELSE d[x]]
dict_pop(d, k) == [x \in DOMAIN d \ {k} |-> d[x]]

SeqsUpTo(S, n) == UNION {[1..k -> S] : k \in 0..n}

(***************************************************************************)
(* Clock texts and datetimes.                                              *)
(***************************************************************************)
ClockText(t) == [kind |-> "time", tod |-> t % MinutesPerDay]
GarbageText == [kind |-> "garbage", tod |-> 0]
AbsentText == [kind |-> "absent", tod |-> 0]

DateOf(t) == t \div MinutesPerDay

\* datetime.strptime(f"{date} {text}", "%Y-%m-%d %I:%M %p"); None stands for ValueError
strptime(date, text) ==
    IF text.kind = "time" THEN Some(date * MinutesPerDay + text.tod) ELSE None

isoformat(dt) == <<DateOf(dt), dt % MinutesPerDay>>
fromisoformat(s) == s[1] * MinutesPerDay + s[2]

(***************************************************************************)
(* route_server.py: airline tables and the parsers.                        *)
(***************************************************************************)
upper(s) ==
    CASE s = "Southwest Airlines" -> "SOUTHWEST AIRLINES"
      [] s = "wn" -> "WN"
      [] s = "swa100" -> "SWA100"
      [] s = "dal5" -> "DAL5"
      [] OTHER -> s

srv_FULL_NAME_TO_IATA(name, default) ==
    CASE name = "AMERICAN AIRLINES" -> "AA"
      [] name = "SOUTHWEST AIRLINES" -> "WN"
      [] name = "DELTA AIR LINES" -> "DL"
      [] name = "UNITED AIRLINES" -> "UA"
      [] name = "ALASKA AIRLINES" -> "AS"
      [] name = "FRONTIER AIRLINES" -> "F9"
      [] name = "SPIRIT AIRLINES" -> "NK"
      [] name = "JETBLUE AIRWAYS" -> "B6"
      [] name = "ALLEGIANT AIR" -> "G4"
      [] name = "HAWAIIAN AIRLINES" -> "HA"
      [] name = "VIRGIN AMERICA" -> "VX"
      [] name = "WESTJET" -> "WS"
      [] name = "AIR CANADA" -> "AC"
      [] name = "VOLARIS" -> "Y4"
      [] name = "INTERJET" -> "4O"
      [] name = "BRITISH AIRWAYS" -> "BA"
      [] name = "LUFTHANSA" -> "LH"
      [] name = "EDELWEISS AIR" -> "WK"
      [] OTHER -> default

srv_IATA_TO_ICAO(iata, default) ==
    CASE iata = "WN" -> "SWA"
      [] iata = "DL" -> "DAL"
      [] iata = "AA" -> "AAL"
      [] iata = "UA" -> "UAL"
      [] iata = "AS" -> "ASA"
      [] iata = "F9" -> "FFT"
      [] iata = "NK" -> "NKS"
      [] iata = "B6" -> "JBU"
      [] iata = "G4" -> "AAY"
      [] OTHER -> default

\* airline_icao + num, on the flights of the model
concat(a, b) ==
    CASE a = "SWA" /\ b = "100" -> "SWA100"
      [] a = "MX" /\ b = "5" -> "MX5"
      [] OTHER -> "?"

\* parse_time(time_str, current_date): "sched / est" -> (scheduled_dt, estimated_dt)
srv_parse_time(time_str, current_date) ==
    IF time_str.sched.kind # "time" \/ time_str.est.kind = "garbage"
    THEN [scheduled_dt |-> None, estimated_dt |-> None]
    ELSE [scheduled_dt |-> strptime(DateOf(current_date), time_str.sched),
          estimated_dt |-> IF time_str.est.kind = "absent" THEN None
                           ELSE strptime(DateOf(current_date), time_str.est)]

\* parse_status(status_str); today is the date of datetime.now() inside it
srv_parse_status(status_str, today) ==
    IF status_str.kind = "departed_at" THEN strptime(DateOf(today), status_str.at)
    ELSE None

\* The body of the row loop, from the regex match to new_routes[callsign] = {...}
srv_scrape_row(new_routes, row, scope, current_time, today) ==
    LET airline_iata == srv_FULL_NAME_TO_IATA(upper(row.airline_name), upper(row.flight_num.code))
        airline_icao == srv_IATA_TO_ICAO(airline_iata, airline_iata)
        num == row.flight_num.digits
        callsign == concat(airline_icao, num)
        parsed == srv_parse_time(row.time_text, current_time)
        scheduled_dt == parsed.scheduled_dt
        estimated_dt == parsed.estimated_dt
        actual_dt == srv_parse_status(row.status_text, today)
        use_time == IF estimated_dt # None THEN estimated_dt ELSE scheduled_dt
    IN  IF scheduled_dt = None THEN new_routes
        ELSE IF current_time <= Val(use_time) /\ Val(use_time) <= current_time + AdmitWindowMinutes
        THEN dict_set(new_routes, callsign,
                 [origin |-> IF scope = "arrival" THEN row.iata ELSE "LAS",
                  dest |-> IF scope = "arrival" THEN "LAS" ELSE row.iata,
                  airline_iata |-> airline_iata,
                  airline_icao |-> airline_icao,
                  scheduled_time |-> isoformat(Val(scheduled_dt)),
                  actual_time |-> IF estimated_dt # None THEN isoformat(Val(estimated_dt))
                                  ELSE IF actual_dt # None THEN isoformat(Val(actual_dt))
                                  ELSE None])
        ELSE new_routes

RECURSIVE srv_scrape_rows(_, _, _, _, _)
srv_scrape_rows(new_routes, rows, scope, current_time, today) ==
    IF rows = << >> THEN new_routes
    ELSE srv_scrape_rows(srv_scrape_row(new_routes, Head(rows), scope, current_time, today),
                         Tail(rows), scope, current_time, today)

\* for scope, url in urls.items(): arrivals first, then departures
srv_scrape(arrivals, departures, current_time, today) ==
    srv_scrape_rows(srv_scrape_rows(EmptyDict, arrivals, "arrival", current_time, today),
                    departures, "departure", current_time, today)

\* a merge that keeps the entry already cached (dict.setdefault for every key)
dict_update_keeps_old(d, e) == [x \in DOMAIN d \cup DOMAIN e |-> IF x \in DOMAIN d THEN d[x] ELSE e[x]]

\* route_cache.update(new_routes)
dict_update(d, e) == [x \in DOMAIN d \cup DOMAIN e |-> IF x \in DOMAIN e THEN e[x] ELSE d[x]]

\* a cleanup test that reads the scheduled time alone
srv_expired_scheduled_only(info, current_time) ==
    fromisoformat(info.scheduled_time) < current_time

\* The test of the cleanup loop: does callsign go to to_remove?
srv_expired(info, current_time) ==
    LET scheduled_time == fromisoformat(info.scheduled_time)
        actual_time == IF info.actual_time # None THEN Some(fromisoformat(info.actual_time)) ELSE None
        use_time == IF actual_time # None THEN Val(actual_time) ELSE scheduled_time
    IN  IF use_time < current_time THEN TRUE
        ELSE IF actual_time # None /\ Val(actual_time) + GraceMinutes < current_time THEN TRUE
        ELSE FALSE

srv_cleanup_scan(cache, current_time) ==
    {callsign \in DOMAIN cache : srv_expired(cache[callsign], current_time)}

\* jsonify(route_cache): the JSON object, as its set of members
jsonify(d) == {<<k, d[k]>> : k \in DOMAIN d}

(***************************************************************************)
(* What the schedule site can show at time t.                              *)
(***************************************************************************)
SrvFlights ==
    {[airline_name |-> "Southwest Airlines", flight_num |-> [code |-> "WN", digits |-> "100"]],
     [airline_name |-> "BREEZE AIRWAYS", flight_num |-> [code |-> "MX", digits |-> "5"]]}

NoStatus == [kind |-> "other", at |-> AbsentText]
DepartedAt(t) == [kind |-> "departed_at", at |-> ClockText(t)]

SrvTimes(t) ==
    {[time_text |-> [sched |-> ClockText(t + 5), est |-> AbsentText], status_text |-> s] :
        s \in {NoStatus, DepartedAt(t - 31), DepartedAt(t - 29), DepartedAt(t + 61)}}
    \cup
    {[time_text |-> [sched |-> ClockText(t + 5), est |-> ClockText(t + 4)], status_text |-> NoStatus],
     [time_text |-> [sched |-> ClockText(t + 61), est |-> AbsentText], status_text |-> NoStatus],
     [time_text |-> [sched |-> GarbageText, est |-> AbsentText], status_text |-> NoStatus]}

SrvRows(t) ==
    {[airline_name |-> f.airline_name, flight_num |-> f.flight_num, iata |-> "PHX",
      time_text |-> x.time_text, status_text |-> x.status_text] :
        f \in SrvFlights, x \in SrvTimes(t)}

(***************************************************************************)
(* route_server.py: the scraper thread, step by step, and the reader.      *)
(***************************************************************************)
\* route_server.py as the module is imported, before the thread has run
SrvIdle ==
    /\ srv_route_cache = EmptyDict
    /\ srv_pc = "start"
    /\ srv_current_time = 0
    /\ srv_new_routes = EmptyDict
    /\ srv_to_remove = {}
    /\ srv_wake_at = 0
    /\ srv_cycles = 0
    /\ srv_pre_merge = EmptyDict
    /\ response = None
    /\ response_pc = "none"

\* tracker.py at its globals, before the main loop has run
TrkIdle ==
    /\ route_cache = EmptyDict
    /\ last_route_fetch = 0
    /\ trk_pc = "loop"
    /\ trk_cycles = 0
    /\ trk_current_time = 0
    /\ trk_new_routes = EmptyDict
    /\ trk_pre_merge = EmptyDict
    /\ trk_offered = {}
    /\ raw_data = << >>
    /\ current_arrivals = << >>
    /\ current_departures = << >>
    /\ board = << >>
    /\ rwy_call = None
    /\ rwy_result = None
    /\ live_call = None
    /\ live_result = None
    /\ listed_before = {}

SrvInit == now \in Starts /\ SrvIdle /\ TrkIdle

\* driver = webdriver.Firefox(...); current_time = datetime.now(); new_routes = {}
srv_DriverStart ==
    /\ srv_pc = "start"
    /\ srv_cycles < MaxCycles
    /\ srv_pc' = "scraping"
    /\ srv_current_time' = now
    /\ srv_new_routes' = EmptyDict
    /\ srv_pre_merge' = srv_route_cache
    /\ srv_cycles' = srv_cycles + 1
    /\ UNCHANGED <<trk_vars, poll_vars, now, srv_route_cache, srv_to_remove, srv_wake_at, response, response_pc>>

\* webdriver.Firefox raises: nothing in background_scraper catches it, the thread ends
srv_DriverFails ==
    /\ srv_pc = "start"
    /\ srv_cycles < MaxCycles
    /\ srv_pc' = "dead"
    /\ srv_cycles' = srv_cycles + 1
    /\ UNCHANGED <<trk_vars, poll_vars, now, srv_route_cache, srv_current_time, srv_new_routes, srv_to_remove,
                   srv_wake_at, srv_pre_merge, response, response_pc>>

\* the for loop over both scopes; a scope that fails yields the rows read before
srv_Scrape ==
    /\ srv_pc = "scraping"
    /\ \E n \in 0..MaxRows :
         \E arrivals \in SeqsUpTo(SrvRows(srv_current_time), n) :
           \E departures \in [1..(n - Len(arrivals)) -> SrvRows(srv_current_time)] :
             srv_new_routes' = srv_scrape(arrivals, departures, srv_current_time, now)
    /\ srv_pc' = "update"
    /\ UNCHANGED <<trk_vars, poll_vars, now, srv_route_cache, srv_current_time, srv_to_remove, srv_wake_at,
                   srv_cycles, srv_pre_merge, response, response_pc>>

\* driver.quit(); route_cache.update(new_routes)
srv_Update ==
    /\ srv_pc = "update"
    /\ srv_route_cache' = dict_update(srv_route_cache, srv_new_routes)
    /\ srv_pc' = "cleanup"
    /\ UNCHANGED <<trk_vars, poll_vars, now, srv_current_time, srv_new_routes, srv_to_remove, srv_wake_at,
                   srv_cycles, srv_pre_merge, response, response_pc>>

\* for callsign, info in route_cache.items(): ... to_remove.append(callsign)
srv_CleanupScan ==
    /\ srv_pc = "cleanup"
    /\ srv_to_remove' = srv_cleanup_scan(srv_route_cache, srv_current_time)
    /\ srv_pc' = "pop"
    /\ UNCHANGED <<trk_vars, poll_vars, now, srv_route_cache, srv_current_time, srv_new_routes, srv_wake_at,
                   srv_cycles, srv_pre_merge, response, response_pc>>

\* for cs in to_remove: route_cache.pop(cs, None)   (one iteration)
srv_Pop ==
    /\ srv_pc = "pop"
    /\ \E cs \in srv_to_remove :
         /\ srv_route_cache' = dict_pop(srv_route_cache, cs)
         /\ srv_to_remove' = srv_to_remove \ {cs}
    /\ UNCHANGED <<trk_vars, poll_vars, now, srv_pc, srv_current_time, srv_new_routes, srv_wake_at,
                   srv_cycles, srv_pre_merge, response, response_pc>>

\* scrape_airport_routes returns; time.sleep(ROUTE_REFRESH_SECONDS) begins
srv_Return ==
    /\ srv_pc = "pop"
    /\ srv_to_remove = {}
    /\ srv_pc' = "sleep"
    /\ srv_wake_at' = now + ROUTE_REFRESH_MINUTES
    /\ srv_new_routes' = EmptyDict
    /\ srv_pre_merge' = EmptyDict
    /\ response' = None
    /\ response_pc' = "none"
    /\ UNCHANGED <<trk_vars, poll_vars, now, srv_route_cache, srv_current_time, srv_to_remove, srv_cycles>>

\* time.sleep returns; while True: loops
srv_Wake ==
    /\ srv_pc = "sleep"
    /\ now >= srv_wake_at
    /\ srv_pc' = "start"
    /\ UNCHANGED <<trk_vars, poll_vars, now, srv_route_cache, srv_current_time, srv_new_routes, srv_to_remove,
                   srv_wake_at, srv_cycles, srv_pre_merge, response, response_pc>>

\* @app.route('/routes'): return jsonify(route_cache), on a Flask worker thread
get_routes ==
    /\ srv_pc \in {"scraping", "update", "cleanup", "pop"}
    /\ response' = Some(jsonify(srv_route_cache))
    /\ response_pc' = srv_pc
    /\ UNCHANGED <<trk_vars, poll_vars, now, srv_route_cache, srv_pc, srv_current_time, srv_new_routes,
                   srv_to_remove, srv_wake_at, srv_cycles, srv_pre_merge>>

\* A minute passes: while the thread sleeps, while the browser loads, or after the thread died
SrvTick ==
    /\ \E s \in Starts : s <= now /\ now < s + MaxElapsed
    /\ \/ srv_pc = "sleep" /\ now < srv_wake_at
       \/ srv_pc = "scraping" /\ now < srv_current_time + MaxScrapeMinutes
       \/ srv_pc = "dead"
    /\ now' = now + 1
    /\ UNCHANGED <<srv_vars, trk_vars, poll_vars>>

SrvNext ==
    \/ srv_DriverStart
    \/ srv_DriverFails
    \/ srv_Scrape
    \/ srv_Update
    \/ srv_CleanupScan
    \/ srv_Pop
    \/ srv_Return
    \/ srv_Wake
    \/ get_routes
    \/ SrvTick

SpecServer == SrvInit /\ [][SrvNext]_vars

(***************************************************************************)
(* Route cache of route_server.py: the notions the claims are stated in.   *)
(***************************************************************************)
\* relevance time: use_time = actual_time or scheduled_time
srv_relevance(info) ==
    IF info.actual_time # None THEN fromisoformat(info.actual_time)
    ELSE fromisoformat(info.scheduled_time)

\* every pop of the running call is done and the call has not returned yet
srv_MergeDone == srv_pc = "pop" /\ srv_to_remove = {}

\* the mapping right after route_cache.update(new_routes) of the running call
srv_after_update == dict_update(srv_pre_merge, srv_new_routes)

\* the mapping the running call leaves when it has finished
srv_post_merge ==
    [cs \in DOMAIN srv_after_update \ srv_cleanup_scan(srv_after_update, srv_current_time)
        |-> srv_after_update[cs]]

\* C1: a GET /routes served while scrape_airport_routes merges returns either
\* the complete pre-merge mapping or the complete post-merge mapping.
C1_ReadSeesSnapshot ==
    response_pc \in {"update", "cleanup", "pop"} =>
        Val(response) \in {jsonify(srv_pre_merge), jsonify(srv_post_merge)}

\* C2: when a merge at current_time finishes, a record that had an actual time
\* is gone if that time is more than 30 minutes before current_time and is
\* still there otherwise (e.g. actual time 29 minutes before current_time).
C2_ActualTimeGrace ==
    srv_MergeDone =>
        \A cs \in DOMAIN srv_after_update :
            LET info == srv_after_update[cs] IN
            info.actual_time # None =>
                IF fromisoformat(info.actual_time) + GraceMinutes < srv_current_time
                THEN cs \notin DOMAIN srv_route_cache
                ELSE cs \in DOMAIN srv_route_cache /\ srv_route_cache[cs] = info

\* C3: when a merge at current_time finishes, no record that was resident
\* before it with a relevance time strictly before current_time is still
\* resident, whether or not the scrape brought any record.
C3_StaleEvicted ==
    srv_MergeDone =>
        \A cs \in DOMAIN srv_pre_merge :
            srv_relevance(srv_pre_merge[cs]) < srv_current_time =>
                ~(cs \in DOMAIN srv_route_cache /\ srv_route_cache[cs] = srv_pre_merge[cs])

\* C3 witness: a merge with an empty incoming set has evicted a stale resident
C3_Witness ==
    /\ srv_MergeDone
    /\ srv_new_routes = EmptyDict
    /\ \E cs \in DOMAIN srv_pre_merge :
         /\ srv_relevance(srv_pre_merge[cs]) < srv_current_time
         /\ cs \notin DOMAIN srv_route_cache

\* C5: outside the pops of a running merge, every resident record has a
\* relevance time in the future or at most 30 minutes before the clock.
C5_ResidentWithinGrace ==
    srv_pc \notin {"cleanup", "pop"} =>
        \A cs \in DOMAIN srv_route_cache :
            srv_relevance(srv_route_cache[cs]) >= now - GraceMinutes

(***************************************************************************)
(* tracker.py: strings, parsers and the route cache.                       *)
(***************************************************************************)
\* s.strip(), on the callsigns of the model
strip(s) ==
    CASE s = "SWA100  " -> "SWA100"
      [] s = "DAL5    " -> "DAL5"
      [] s = "N123AB  " -> "N123AB"
      [] s = "        " -> ""
      [] s = " swa100 " -> "swa100"
      [] OTHER -> s

\* callsign[:2]
prefix2(s) ==
    CASE s = "SWA100" -> "SW"
      [] s = "DAL5" -> "DA"
      [] s = "N123AB" -> "N1"
      [] s = "UAL9" -> "UA"
      [] OTHER -> s

\* callsign[:3]
prefix3(s) ==
    CASE s = "SWA100" -> "SWA"
      [] s = "DAL5" -> "DAL"
      [] s = "N123AB" -> "N12"
      [] s = "UAL9" -> "UAL"
      [] OTHER -> s

IATA_TO_ICAO(iata, default) ==
    CASE iata = "WN" -> "SWA"
      [] iata = "DL" -> "DAL"
      [] iata = "AA" -> "AAL"
      [] iata = "UA" -> "UAL"
      [] iata = "AS" -> "ASA"
      [] iata = "F9" -> "FFT"
      [] iata = "NK" -> "NKS"
      [] iata = "B6" -> "JBU"
      [] iata = "G4" -> "AAY"
      [] OTHER -> default

\* iata = "---"; if '(' in from_to and ')' in from_to: from_to.split(' (')[-1].strip(')')
iata_of(from_to) ==
    CASE from_to = "Phoenix Sky Harbor Intl (PHX)" -> "PHX"
      [] from_to = "Harry Reid Intl (LAS)" -> "LAS"
      [] OTHER -> "---"

\* parse_time(time_str, current_date): "4:20p" -> (scheduled_dt, None)
parse_time(time_str, current_date) ==
    [scheduled_dt |-> strptime(DateOf(current_date), time_str), estimated_dt |-> None]

\* parse_status(status_str); today is the date of datetime.now() inside it
parse_status(status_str, today) ==
    IF status_str.kind = "departed_at" THEN strptime(DateOf(today), status_str.at)
    ELSE None

\* The body of the row loop of fetch_airport_routes
scrape_row(new_routes, row, scope, current_time, today) ==
    LET callsign == upper(row.ident)
        airline_iata == prefix2(callsign)
        airline_icao == IATA_TO_ICAO(airline_iata, airline_iata)
        iata == iata_of(row.from_to)
        time_text == IF scope = "arrival" THEN row.arrive_time ELSE row.depart_time
        parsed == parse_time(time_text, current_time)
        scheduled_dt == parsed.scheduled_dt
        estimated_dt == parsed.estimated_dt
        actual_dt == parse_status(row.status_text, today)
        use_time == IF estimated_dt # None THEN estimated_dt ELSE scheduled_dt
    IN  IF scheduled_dt = None THEN new_routes
        ELSE IF current_time <= Val(use_time) /\ Val(use_time) <= current_time + AdmitWindowMinutes
        THEN dict_set(new_routes, callsign,
                 IF scope = "arrival"
                 THEN [origin |-> iata, dest |-> "LAS",
                       airline_iata |-> airline_iata, airline_icao |-> airline_icao,
                       scheduled_time |-> Val(scheduled_dt),
                       actual_time |-> estimated_dt]
                 ELSE [origin |-> "LAS", dest |-> iata,
                       airline_iata |-> airline_iata, airline_icao |-> airline_icao,
                       scheduled_time |-> Val(scheduled_dt),
                       actual_time |-> IF row.status_text.kind \in {"departed_at", "departed"}
                                       THEN actual_dt ELSE None])
        ELSE new_routes

RECURSIVE scrape_rows(_, _, _, _, _)
scrape_rows(new_routes, rows, scope, current_time, today) ==
    IF rows = << >> THEN new_routes
    ELSE scrape_rows(scrape_row(new_routes, Head(rows), scope, current_time, today),
                     Tail(rows), scope, current_time, today)

\* for scope, url in urls.items(): arrivals first, then departures
scrape(arrivals, departures, current_time, today) ==
    scrape_rows(scrape_rows(EmptyDict, arrivals, "arrival", current_time, today),
                departures, "departure", current_time, today)

\* The test of the cleanup loop of fetch_airport_routes
expired(info, current_time) ==
    LET use_time == IF info.actual_time # None THEN Val(info.actual_time) ELSE info.scheduled_time
    IN  IF use_time < current_time THEN TRUE
        ELSE IF info.actual_time # None
        THEN Val(info.actual_time) + GraceMinutes < current_time
        ELSE FALSE

\* route_cache.update(new_routes), then the cleanup loop and its pops
merge(cache, new_routes, current_time) ==
    LET updated == dict_update(cache, new_routes)
        to_remove == {callsign \in DOMAIN updated : expired(updated[callsign], current_time)}
    IN  [callsign \in DOMAIN updated \ to_remove |-> updated[callsign]]

\* get_live_route with the callsign taken as it is given
live_route_exact(cache, call) ==
    LET callsign == call
    IN  IF callsign = ""
        THEN [origin |-> "---", dest |-> "---", airline_iata |-> "---", airline_icao |-> "---"]
        ELSE IF callsign \in DOMAIN cache THEN cache[callsign]
        ELSE [origin |-> "---", dest |-> "---",
              airline_iata |-> prefix3(callsign), airline_icao |-> prefix3(callsign)]

\* get_live_route(callsign), reading the cache given
live_route(cache, call) ==
    LET callsign == upper(strip(call))
    IN  IF callsign = ""
        THEN [origin |-> "---", dest |-> "---", airline_iata |-> "---", airline_icao |-> "---"]
        ELSE IF callsign \in DOMAIN cache THEN cache[callsign]
        ELSE [origin |-> "---", dest |-> "---",
              airline_iata |-> prefix3(callsign), airline_icao |-> prefix3(callsign)]

get_live_route(call) == live_route(route_cache, call)

(***************************************************************************)
(* What the FlightAware tables can show at time t.                         *)
(***************************************************************************)
TrkIdents == {"SWA100", "DAL5"}

TrkTimes(t) ==
    {[time |-> ClockText(t + o), status_text |-> s] :
        o \in {5, 10, 61}, s \in {NoStatus, DepartedAt(t - 31), DepartedAt(t + 61)}}
    \cup {[time |-> GarbageText, status_text |-> NoStatus]}

\* rows of other shapes: an ident in lower case, a flight 20 minutes away, a
\* flight whose other airport is LAS itself
OtherRows(t) ==
    {[ident |-> "swa100", from_to |-> "Phoenix Sky Harbor Intl (PHX)",
      depart_time |-> ClockText(t + 5), arrive_time |-> ClockText(t + 5),
      status_text |-> NoStatus],
     [ident |-> "SWA100", from_to |-> "Phoenix Sky Harbor Intl (PHX)",
      depart_time |-> ClockText(t + 20), arrive_time |-> ClockText(t + 20),
      status_text |-> NoStatus],
     [ident |-> "DAL5", from_to |-> "Harry Reid Intl (LAS)",
      depart_time |-> ClockText(t + 10), arrive_time |-> ClockText(t + 10),
      status_text |-> NoStatus]}

TrkRows(t) ==
    {[ident |-> i, from_to |-> "Phoenix Sky Harbor Intl (PHX)",
      depart_time |-> x.time, arrive_time |-> x.time, status_text |-> x.status_text] :
        i \in TrkIdents, x \in TrkTimes(t)}
    \cup OtherRows(t)

\* the callsigns of the rows whose scheduled time parses
Offered(arrivals, departures, current_time) ==
    {upper(arrivals[i].ident) : i \in {j \in DOMAIN arrivals :
        parse_time(arrivals[j].arrive_time, current_time).scheduled_dt # None}}
    \cup
    {upper(departures[i].ident) : i \in {j \in DOMAIN departures :
        parse_time(departures[j].depart_time, current_time).scheduled_dt # None}}

(***************************************************************************)
(* tracker.py: the route refresh of the main loop.                         *)
(***************************************************************************)
RefreshDue == now - last_route_fetch >= ROUTE_REFRESH_MINUTES

\* fetch_airport_routes() from the driver's start to the last pop; the browser
\* takes d minutes (d in Delays), the two tables show rows of ArrRows and DepRows
trk_Fetch(ArrRows, DepRows, Delays) ==
    /\ trk_pc = "loop"
    /\ RefreshDue
    /\ trk_cycles < MaxCycles
    /\ \E d \in Delays, n \in 0..MaxRows :
         \E arrivals \in SeqsUpTo(ArrRows, n) :
           \E departures \in [1..(n - Len(arrivals)) -> DepRows] :
             LET new_routes == scrape(arrivals, departures, now, now + d) IN
             /\ trk_new_routes' = new_routes
             /\ trk_offered' = Offered(arrivals, departures, now)
             /\ route_cache' = merge(route_cache, new_routes, now)
             /\ now' = now + d
    /\ trk_current_time' = now
    /\ trk_pre_merge' = route_cache
    /\ trk_cycles' = trk_cycles + 1
    /\ trk_pc' = "fetched"
    /\ UNCHANGED <<srv_vars, poll_vars, last_route_fetch>>

fetch_airport_routes == trk_Fetch(TrkRows(now), TrkRows(now), 0..MaxScrapeMinutes)

\* webdriver.Firefox raises inside fetch_airport_routes: nothing catches it and
\* the program ends
trk_DriverFails ==
    /\ trk_pc = "loop"
    /\ RefreshDue
    /\ trk_cycles < MaxCycles
    /\ trk_pc' = "crashed"
    /\ trk_cycles' = trk_cycles + 1
    /\ UNCHANGED <<now, srv_vars, poll_vars, route_cache, last_route_fetch, trk_current_time,
                   trk_new_routes, trk_pre_merge, trk_offered>>

\* fetch_airport_routes has returned: last_route_fetch = time.time()
trk_Fetched ==
    /\ trk_pc = "fetched"
    /\ last_route_fetch' = now
    /\ trk_pc' = "loop"
    /\ trk_new_routes' = EmptyDict
    /\ trk_pre_merge' = EmptyDict
    /\ trk_offered' = {}
    /\ UNCHANGED <<now, srv_vars, poll_vars, route_cache, trk_cycles, trk_current_time>>

\* A minute passes while the main loop has no refresh to do
TrkTick ==
    /\ \E s \in Starts : s <= now /\ now < s + MaxElapsed
    /\ trk_pc = "loop"
    /\ ~RefreshDue
    /\ now' = now + 1
    /\ UNCHANGED <<srv_vars, trk_vars, poll_vars>>

\* the callsigns get_live_route may be given
LookupTexts == {"SWA100  ", " swa100 ", "dal5", "UAL9", "        ", ""}

\* route = get_live_route(callsign), called from the main loop
trk_GetLiveRoute ==
    /\ trk_pc = "loop"
    /\ \E call \in LookupTexts :
         /\ live_call' = Some(call)
         /\ live_result' = Some(get_live_route(call))
    /\ trk_pc' = "looked"
    /\ UNCHANGED <<now, srv_vars, route_cache, last_route_fetch, trk_cycles,
                   trk_current_time, trk_new_routes, trk_pre_merge, trk_offered,
                   raw_data, current_arrivals, current_departures, board,
                   rwy_call, rwy_result, listed_before>>

\* the caller has used the record
trk_Looked ==
    /\ trk_pc = "looked"
    /\ trk_pc' = "loop"
    /\ live_call' = None
    /\ live_result' = None
    /\ UNCHANGED <<now, srv_vars, route_cache, last_route_fetch, trk_cycles,
                   trk_current_time, trk_new_routes, trk_pre_merge, trk_offered,
                   raw_data, current_arrivals, current_departures, board,
                   rwy_call, rwy_result, listed_before>>

TrkInit == now \in Starts /\ SrvIdle /\ TrkIdle

RoutesNext ==
    \/ fetch_airport_routes
    \/ trk_DriverFails
    \/ trk_Fetched
    \/ trk_GetLiveRoute
    \/ trk_Looked
    \/ TrkTick

SpecRoutes == TrkInit /\ [][RoutesNext]_vars

(***************************************************************************)
(* Route cache of tracker.py: claims.                                      *)
(***************************************************************************)
\* relevance time: use_time = info.get('actual_time') or info['scheduled_time']
relevance(info) ==
    IF info.actual_time # None THEN Val(info.actual_time) ELSE info.scheduled_time

\* the callsigns the poll loop may look up, as the telemetry writes them
Lookups == {"SWA100  ", "DAL5    "}

IsRouteRecord(r) == "scheduled_time" \in DOMAIN r

\* C4: right after a merge at current_time, no lookup returns a record whose
\* relevance time is more than 60 minutes after current_time.
C4_NoFarFutureRecord ==
    trk_pc = "fetched" =>
        \A call \in Lookups :
            LET r == get_live_route(call) IN
            IsRouteRecord(r) => relevance(r) <= trk_current_time + AdmitWindowMinutes

\* C6 as stated: after a merge, a callsign that a row of the scrape carried
\* with a parsable scheduled time resolves to the record built in this scrape
\* or to nothing, also when the row's time is outside the admission window.
C6_NewerAlwaysWins ==
    trk_pc = "fetched" =>
        \A cs \in trk_offered :
            cs \in DOMAIN route_cache =>
                cs \in DOMAIN trk_new_routes /\ route_cache[cs] = trk_new_routes[cs]

\* C6 amended: after a merge, a callsign with a row inside the admission
\* window resolves to the whole record of the last such row or to nothing;
\* a callsign whose rows all fall outside the window keeps the record it had,
\* unchanged, or nothing.
C6_AdmittedAlwaysWins ==
    trk_pc = "fetched" =>
        /\ \A cs \in DOMAIN trk_new_routes :
              cs \in DOMAIN route_cache => route_cache[cs] = trk_new_routes[cs]
        /\ \A cs \in trk_offered \ DOMAIN trk_new_routes :
              cs \in DOMAIN route_cache =>
                  cs \in DOMAIN trk_pre_merge /\ route_cache[cs] = trk_pre_merge[cs]

\* C6 witness: a merge has replaced a cached record by a different incoming one
C6_Witness ==
    /\ trk_pc = "fetched"
    /\ \E cs \in DOMAIN trk_new_routes \cap DOMAIN trk_pre_merge :
         /\ trk_pre_merge[cs] # trk_new_routes[cs]
         /\ cs \in DOMAIN route_cache
         /\ route_cache[cs] = trk_new_routes[cs]

\* the fallback record of a callsign that is not cached
NotFound(r) == r.origin = "---" /\ r.dest = "---"

\* C16: a call of get_live_route leaves the route cache as it was and returns
\* the cached record whose key is the callsign trimmed and in upper case, or,
\* when there is none, a record with origin and destination "---".
C16_LookupPureRead ==
    [][(trk_pc = "loop" /\ trk_pc' = "looked") =>
          /\ route_cache' = route_cache
          /\ LET key == upper(strip(Val(live_call')))
                 r == Val(live_result')
             IN  IF key \in DOMAIN route_cache THEN r = route_cache[key]
                 ELSE NotFound(r)]_vars

\* C16 witness: a callsign given in lower case between blanks has returned the
\* record cached from a row whose ident was in upper case
C16_Witness ==
    /\ trk_pc = "looked"
    /\ Val(live_call) = " swa100 "
    /\ "SWA100" \in DOMAIN route_cache
    /\ Val(live_result) = route_cache["SWA100"]
    /\ ~NotFound(Val(live_result))

\* the last call of fetch_airport_routes admitted an arrival of SWA100 from
\* PHX scheduled 20 minutes after its current_time
SouthwestArrivalMerged ==
    /\ trk_pc = "fetched"
    /\ "SWA100" \in DOMAIN trk_new_routes
    /\ trk_new_routes["SWA100"].origin = "PHX"
    /\ trk_new_routes["SWA100"].dest = "LAS"
    /\ trk_new_routes["SWA100"].scheduled_time = trk_current_time + 20

\* C17: after the merge of an arrival row of SWA100 from PHX scheduled 20
\* minutes ahead, the lookup of SWA100 returns destination LAS, origin PHX,
\* airline IATA WN and airline ICAO SWA.
C17_SouthwestResolved ==
    SouthwestArrivalMerged =>
        LET r == get_live_route("SWA100") IN
        /\ r.dest = "LAS"
        /\ r.origin = "PHX"
        /\ r.airline_iata = "WN"
        /\ r.airline_icao = "SWA"

\* C20: every record of the route cache has exactly one of its origin and its
\* destination equal to LAS.
C20_ExactlyOneHome ==
    \A cs \in DOMAIN route_cache :
        (route_cache[cs].origin = "LAS") # (route_cache[cs].dest = "LAS")

(***************************************************************************)
(* tracker.py: geometry.  Latitudes, longitudes, headings and bearings are *)
(* in thousandths of a degree, distances in metres (the source's km times  *)
(* 1000), altitudes in ten-thousandths of a foot, speeds in                *)
(* ten-thousandths of a knot, vertical rates in tenths of a metre per      *)
(* second.  calculate_distance and calculate_bearing are tabulated at the  *)
(* positions the state vectors of the model take, with the values the      *)
(* source's functions return there.                                        *)
(***************************************************************************)
LAS_LAT == 36080
LAS_LON == -115152
KHND_LAT == 35976
KHND_LON == -115134
KVGT_LAT == 36211
KVGT_LON == -115195

Ft(n) == n * 10000
Kt(n) == n * 10000
Km(n) == n * 1000
Deg(n) == n * 1000

calculate_distance(lat1, lon1, lat2, lon2) ==
    LET a == <<lat1, lon1>>
        b == <<lat2, lon2>>
    IN  CASE a = <<35990, -115250>> /\ b = <<LAS_LAT, LAS_LON>> -> 13334
          [] a = <<35990, -115250>> /\ b = <<KHND_LAT, KHND_LON>> -> 10553
          [] a = <<35990, -115250>> /\ b = <<KVGT_LAT, KVGT_LON>> -> 25066
          [] a = <<35980, -115130>> /\ b = <<LAS_LAT, LAS_LON>> -> 11294
          [] a = <<35980, -115130>> /\ b = <<KHND_LAT, KHND_LON>> -> 572
          [] a = <<35980, -115130>> /\ b = <<KVGT_LAT, KVGT_LON>> -> 26342
          [] a = <<36200, -115190>> /\ b = <<LAS_LAT, LAS_LON>> -> 13773
          [] a = <<36200, -115190>> /\ b = <<KHND_LAT, KHND_LON>> -> 25411
          [] a = <<36200, -115190>> /\ b = <<KVGT_LAT, KVGT_LON>> -> 1303
          [] a = <<36250, -115050>> /\ b = <<LAS_LAT, LAS_LON>> -> 21004
          [] a = <<36250, -115050>> /\ b = <<KHND_LAT, KHND_LON>> -> 31388
          [] a = <<36250, -115050>> /\ b = <<KVGT_LAT, KVGT_LON>> -> 13710
          [] a = <<36080, -114763>> /\ b = <<LAS_LAT, LAS_LON>> -> 34958
          [] a = <<36080, -114763>> /\ b = <<KHND_LAT, KHND_LON>> -> 35310
          [] a = <<36080, -114763>> /\ b = <<KVGT_LAT, KVGT_LON>> -> 41435
          [] a = <<36080, -114596>> /\ b = <<LAS_LAT, LAS_LON>> -> 49966
          [] a = <<36080, -114596>> /\ b = <<KHND_LAT, KHND_LON>> -> 49743
          [] a = <<36080, -114596>> /\ b = <<KVGT_LAT, KVGT_LON>> -> 55723
          [] a = <<36080, -114150>> /\ b = <<LAS_LAT, LAS_LON>> -> 90047
          [] a = <<36080, -114150>> /\ b = <<KHND_LAT, KHND_LON>> -> 89240
          [] a = <<36080, -114150>> /\ b = <<KVGT_LAT, KVGT_LON>> -> 94956
          [] a = <<0, 0>> /\ b = <<LAS_LAT, LAS_LON>> -> 12241479
          [] a = <<0, 0>> /\ b = <<KHND_LAT, KHND_LON>> -> 12242996
          [] a = <<0, 0>> /\ b = <<KVGT_LAT, KVGT_LON>> -> 12241308

calculate_bearing(lat1, lon1, lat2, lon2) ==
    LET a == <<lat1, lon1>>
        b == <<lat2, lon2>>
    IN  CASE a = <<35990, -115250>> /\ b = <<LAS_LAT, LAS_LON>> -> 41336
          [] a = <<35980, -115130>> /\ b = <<LAS_LAT, LAS_LON>> -> 349918
          [] a = <<36200, -115190>> /\ b = <<LAS_LAT, LAS_LON>> -> 165644
          [] a = <<36250, -115050>> /\ b = <<LAS_LAT, LAS_LON>> -> 205875
          [] a = <<36080, -114763>> /\ b = <<LAS_LAT, LAS_LON>> -> 270115
          [] a = <<36080, -114596>> /\ b = <<LAS_LAT, LAS_LON>> -> 270164
          [] a = <<36080, -114150>> /\ b = <<LAS_LAT, LAS_LON>> -> 270295
          [] a = <<0, 0>> /\ b = <<LAS_LAT, LAS_LON>> -> 308834
          [] a = <<35990, -115250>> /\ b = <<36058, -115158>> -> 47549
          [] a = <<35990, -115250>> /\ b = <<36058, -115145>> -> 51283
          [] a = <<35990, -115250>> /\ b = <<36069, -115178>> -> 36371
          [] a = <<35990, -115250>> /\ b = <<36069, -115165>> -> 41003
          [] a = <<35990, -115250>> /\ b = <<36101, -115139>> -> 38925
          [] a = <<35990, -115250>> /\ b = <<36101, -115152>> -> 35493
          [] a = <<35990, -115250>> /\ b = <<36092, -115126>> -> 44472
          [] a = <<35990, -115250>> /\ b = <<36092, -115139>> -> 41313
          [] a = <<35980, -115130>> /\ b = <<36058, -115158>> -> 343818
          [] a = <<35980, -115130>> /\ b = <<36058, -115145>> -> 351163
          [] a = <<35980, -115130>> /\ b = <<36069, -115178>> -> 336448
          [] a = <<35980, -115130>> /\ b = <<36069, -115165>> -> 342367
          [] a = <<35980, -115130>> /\ b = <<36101, -115139>> -> 356561
          [] a = <<35980, -115130>> /\ b = <<36101, -115152>> -> 351643
          [] a = <<35980, -115130>> /\ b = <<36092, -115126>> -> 1653
          [] a = <<35980, -115130>> /\ b = <<36092, -115139>> -> 356285
          [] a = <<36200, -115190>> /\ b = <<36058, -115158>> -> 169675
          [] a = <<36200, -115190>> /\ b = <<36058, -115145>> -> 165630
          [] a = <<36200, -115190>> /\ b = <<36069, -115178>> -> 175765
          [] a = <<36200, -115190>> /\ b = <<36069, -115165>> -> 171231
          [] a = <<36200, -115190>> /\ b = <<36101, -115139>> -> 157399
          [] a = <<36200, -115190>> /\ b = <<36101, -115152>> -> 162769
          [] a = <<36200, -115190>> /\ b = <<36092, -115126>> -> 154409
          [] a = <<36200, -115190>> /\ b = <<36092, -115139>> -> 159112
          [] a = <<36250, -115050>> /\ b = <<36058, -115158>> -> 204459
          [] a = <<36250, -115050>> /\ b = <<36058, -115145>> -> 201805
          [] a = <<36250, -115050>> /\ b = <<36069, -115178>> -> 209763
          [] a = <<36250, -115050>> /\ b = <<36069, -115165>> -> 207191
          [] a = <<36250, -115050>> /\ b = <<36101, -115139>> -> 205768
          [] a = <<36250, -115050>> /\ b = <<36101, -115152>> -> 208955
          [] a = <<36250, -115050>> /\ b = <<36092, -115126>> -> 201244
          [] a = <<36250, -115050>> /\ b = <<36092, -115139>> -> 204479
          [] a = <<36080, -114763>> /\ b = <<36058, -115158>> -> 266175
          [] a = <<36080, -114763>> /\ b = <<36058, -115145>> -> 266037
          [] a = <<36080, -114763>> /\ b = <<36069, -115178>> -> 268244
          [] a = <<36080, -114763>> /\ b = <<36069, -115165>> -> 268179
          [] a = <<36080, -114763>> /\ b = <<36101, -115139>> -> 274064
          [] a = <<36080, -114763>> /\ b = <<36101, -115152>> -> 273937
          [] a = <<36080, -114763>> /\ b = <<36092, -115126>> -> 272449
          [] a = <<36080, -114763>> /\ b = <<36092, -115139>> -> 272372

abs(x) == IF x < 0 THEN -x ELSE x

\* abs((heading - bearing + 180) % 360 - 180)
heading_diff(heading, bearing) ==
    abs(((heading - bearing + Deg(180)) % Deg(360)) - Deg(180))

\* is_approach_to_las with "and" for "or": distance and heading both required
is_approach_needs_both(lat, lon, heading, v_rate, alt_ft) ==
    LET distance == calculate_distance(lat, lon, LAS_LAT, LAS_LON)
        bearing_to_las == calculate_bearing(lat, lon, LAS_LAT, LAS_LON)
    IN  v_rate < 0 /\ alt_ft < Ft(15000)
        /\ distance < Km(60) /\ heading_diff(heading, bearing_to_las) < Deg(120)

is_approach_to_las(lat, lon, heading, v_rate, alt_ft) ==
    LET distance == calculate_distance(lat, lon, LAS_LAT, LAS_LON)
        bearing_to_las == calculate_bearing(lat, lon, LAS_LAT, LAS_LON)
    IN  v_rate < 0 /\ alt_ft < Ft(15000)
        /\ (distance < Km(60) \/ heading_diff(heading, bearing_to_las) < Deg(120))

is_departure_from_las(lat, lon, heading, v_rate, alt_ft) ==
    LET distance == calculate_distance(lat, lon, LAS_LAT, LAS_LON)
    IN  distance < Km(30) /\ v_rate > 0 /\ alt_ft < Ft(10000)

(***************************************************************************)
(* tracker.py: get_runway.  Its arguments are optional values, as the      *)
(* telemetry fields the call site passes are; alt_ft is in                 *)
(* ten-thousandths of a foot.                                              *)
(***************************************************************************)
\* RUNWAY_THRESHOLDS, in the order of the dict
RUNWAY_THRESHOLDS ==
    << [rwy |-> "01L", lat |-> 36058, lon |-> -115158],
       [rwy |-> "01R", lat |-> 36058, lon |-> -115145],
       [rwy |-> "08L", lat |-> 36069, lon |-> -115178],
       [rwy |-> "08R", lat |-> 36069, lon |-> -115165],
       [rwy |-> "19L", lat |-> 36101, lon |-> -115139],
       [rwy |-> "19R", lat |-> 36101, lon |-> -115152],
       [rwy |-> "26L", lat |-> 36092, lon |-> -115126],
       [rwy |-> "26R", lat |-> 36092, lon |-> -115139] >>

\* float('inf'): no r_diff is above 180 degrees
inf == Deg(360)

\* r_diff of the i-th runway of the table
r_diff(lat, lon, hdg, i) ==
    heading_diff(hdg, calculate_bearing(lat, lon, RUNWAY_THRESHOLDS[i].lat,
                                        RUNWAY_THRESHOLDS[i].lon))

\* the loop of get_runway with "<=" for "<": the last minimal runway wins
RECURSIVE runway_scan_last_wins(_, _, _, _, _, _)
runway_scan_last_wins(lat, lon, hdg, i, min_diff, predicted) ==
    IF i > Len(RUNWAY_THRESHOLDS) THEN predicted
    ELSE IF r_diff(lat, lon, hdg, i) <= min_diff
    THEN runway_scan_last_wins(lat, lon, hdg, i + 1, r_diff(lat, lon, hdg, i),
                               RUNWAY_THRESHOLDS[i].rwy)
    ELSE runway_scan_last_wins(lat, lon, hdg, i + 1, min_diff, predicted)

\* "for rwy, (r_lat, r_lon) in RUNWAY_THRESHOLDS.items()" from the i-th entry on
RECURSIVE runway_scan(_, _, _, _, _, _)
runway_scan(lat, lon, hdg, i, min_diff, predicted) ==
    IF i > Len(RUNWAY_THRESHOLDS) THEN predicted
    ELSE IF r_diff(lat, lon, hdg, i) < min_diff
    THEN runway_scan(lat, lon, hdg, i + 1, r_diff(lat, lon, hdg, i),
                     RUNWAY_THRESHOLDS[i].rwy)
    ELSE runway_scan(lat, lon, hdg, i + 1, min_diff, predicted)

\* float(x) raises TypeError for None, which "except ValueError" lets through
get_runway_raises(lat, lon, hdg, alt_ft) == None \in {lat, lon, hdg, alt_ft}

\* get_runway where it does not raise
get_runway(lat_in, lon_in, hdg_in, alt_ft_in) ==
    LET lat == Val(lat_in)
        lon == Val(lon_in)
        hdg == Val(hdg_in) % Deg(360)
        alt_ft == Val(alt_ft_in)
        distance == calculate_distance(lat, lon, LAS_LAT, LAS_LON)
        bearing_to_las == calculate_bearing(lat, lon, LAS_LAT, LAS_LON)
    IN  IF distance > Km(40) \/ alt_ft >= Ft(7000) THEN ""
        ELSE IF heading_diff(hdg, bearing_to_las) >= Deg(90) THEN ""
        ELSE runway_scan(lat, lon, hdg, 1, inf, "")

(***************************************************************************)
(* tracker.py: aircraft types.                                             *)
(***************************************************************************)
\* icao.lower()
lower(s) ==
    CASE s = "A1B2C3" -> "a1b2c3"
      [] OTHER -> s

\* aircraft_db.get(icao): the rows of aircraft_db.csv the model knows; "" is None
aircraft_db_get(icao) ==
    CASE icao = "a1b2c3" -> "B738"
      [] icao = "c0ffee" -> "R44"
      [] icao = "c25a00" -> "C25A"
      [] OTHER -> ""

get_aircraft_type(icao, callsign) ==
    LET atype == aircraft_db_get(lower(icao))
    IN  IF atype # "" THEN atype
        ELSE IF prefix3(callsign) = "SWA" THEN "B737"
        ELSE "JET"

ignored_types ==
    {"A109", "A119", "A129", "A139", "A169", "A189", "AS32", "AS35", "AS55", "AS65",
     "B105", "B407", "B412", "B427", "B429", "B430", "EC20", "EC25", "EC30", "EC35",
     "EC45", "EC55", "H47", "H60", "MD52", "MD60", "MD90", "R22", "R44", "R66", "S76",
     "S92", "B505", "H125", "H130", "H135", "H145", "H160", "H175", "H225",
     "C150", "C152", "C172", "C182", "C206", "C208", "C210", "C310", "C337", "P28A",
     "P28R", "P32R", "P46T", "BE33", "BE35", "BE36", "BE55", "BE58", "M20P", "M20T",
     "SR20", "SR22", "DA40", "DA42", "DA62", "PC6T", "PC12", "TBM7", "TBM8", "TBM9",
     "SF50", "PA46", "PA34", "PA31", "BN2P", "GA8", "DHC2", "DHC3", "DHC6",
     "C421", "T206"}

heli_prefixes ==
    {"A1", "AS", "B4", "EC", "H1", "H2", "MD", "R2", "R4", "R6", "S7", "S9", "H"}

light_prefixes ==
    {"C1", "C2", "P2", "SR", "BE", "M20", "DA", "PC", "TBM", "PA", "BN2", "GA", "DHC",
     "C4", "T2"}

\* the non-empty prefixes of a type code
prefixes(atype) ==
    CASE atype = "B738" -> {"B", "B7", "B73", "B738"}
      [] atype = "B737" -> {"B", "B7", "B73", "B737"}
      [] atype = "JET" -> {"J", "JE", "JET"}
      [] atype = "R44" -> {"R", "R4", "R44"}
      [] atype = "C25A" -> {"C", "C2", "C25", "C25A"}

\* is_ignored_type without its prefix families
is_ignored_exact_only(type) == upper(type) \in ignored_types

is_ignored_type(type) ==
    LET atype == upper(type)
    IN  IF atype \in ignored_types THEN TRUE
        ELSE prefixes(atype) \cap (heli_prefixes \cup light_prefixes) # {}

(***************************************************************************)
(* tracker.py: the poll of the main loop.  A state vector f is a record    *)
(* whose fields are the entries of the OpenSky list that the loop reads:   *)
(* icao24 = f[0], callsign = f[1], longitude = f[5], latitude = f[6],      *)
(* baro_altitude = f[7], velocity = f[9], true_track = f[10],              *)
(* vertical_rate = f[11]; len is len(f).  The nullable entries are         *)
(* optional values.                                                        *)
(***************************************************************************)
\* x or 0
OrZero(x) == IF x = None THEN 0 ELSE Val(x)

spd_kt_of(f) == OrZero(f.velocity) * 19438
alt_ft_of(f) == OrZero(f.baro_altitude) * 32808

\* the same body with the departure branch tried before the arrival branch
classify_departure_first(f) ==
    LET icao == f.icao24
        call == upper(strip(Val(f.callsign)))
        spd_kt == spd_kt_of(f)
        alt_ft == alt_ft_of(f)
        v_rate == OrZero(f.vertical_rate)
        lat == OrZero(f.latitude)
        lon == OrZero(f.longitude)
        heading == OrZero(f.true_track)
        atype == get_aircraft_type(icao, call)
        route_info == get_live_route(call)
        origin == route_info.origin
        dest == route_info.dest
        is_arrival ==
            IF dest \in {"LAS", "KLAS"} THEN TRUE
            ELSE is_approach_to_las(lat, lon, heading, v_rate, alt_ft)
                 \/ (v_rate < -5 /\ alt_ft < Ft(12000) /\ dest = "---")
        is_departure ==
            IF origin \in {"LAS", "KLAS"} THEN TRUE
            ELSE is_departure_from_las(lat, lon, heading, v_rate, alt_ft)
                 \/ (v_rate > 5 /\ alt_ft < Ft(10000) /\ origin = "---")
        distance_to_khnd == calculate_distance(lat, lon, KHND_LAT, KHND_LON)
        distance_to_kvgt == calculate_distance(lat, lon, KVGT_LAT, KVGT_LON)
    IN  IF f.len < 13 THEN "skip"
        ELSE IF call = "" THEN "skip"
        ELSE IF spd_kt < Kt(130) \/ alt_ft > Ft(15000) THEN "skip"
        ELSE IF is_ignored_type(atype) THEN "skip"
        ELSE IF is_arrival /\ lat > 36150 /\ alt_ft < Ft(6000) THEN "skip"
        ELSE IF /\ v_rate < 0
                /\ alt_ft < Ft(5000)
                /\ (distance_to_khnd < Km(5) \/ distance_to_kvgt < Km(5))
                /\ dest \notin {"LAS", "KLAS"} THEN "skip"
        ELSE IF is_departure THEN "departure"
        ELSE IF is_arrival THEN "arrival"
        ELSE "skip"

\* the body of "for f in raw_data": the list f goes to, or "skip"
classify(f) ==
    LET icao == f.icao24
        call == upper(strip(Val(f.callsign)))
        spd_kt == spd_kt_of(f)
        alt_ft == alt_ft_of(f)
        v_rate == OrZero(f.vertical_rate)
        lat == OrZero(f.latitude)
        lon == OrZero(f.longitude)
        heading == OrZero(f.true_track)
        atype == get_aircraft_type(icao, call)
        route_info == get_live_route(call)
        origin == route_info.origin
        dest == route_info.dest
        is_arrival ==
            IF dest \in {"LAS", "KLAS"} THEN TRUE
            ELSE is_approach_to_las(lat, lon, heading, v_rate, alt_ft)
                 \/ (v_rate < -5 /\ alt_ft < Ft(12000) /\ dest = "---")
        is_departure ==
            IF origin \in {"LAS", "KLAS"} THEN TRUE
            ELSE is_departure_from_las(lat, lon, heading, v_rate, alt_ft)
                 \/ (v_rate > 5 /\ alt_ft < Ft(10000) /\ origin = "---")
        distance_to_khnd == calculate_distance(lat, lon, KHND_LAT, KHND_LON)
        distance_to_kvgt == calculate_distance(lat, lon, KVGT_LAT, KVGT_LON)
    IN  IF f.len < 13 THEN "skip"
        ELSE IF call = "" THEN "skip"
        ELSE IF spd_kt < Kt(130) \/ alt_ft > Ft(15000) THEN "skip"
        ELSE IF is_ignored_type(atype) THEN "skip"
        ELSE IF is_arrival /\ lat > 36150 /\ alt_ft < Ft(6000) THEN "skip"
        ELSE IF /\ v_rate < 0
                /\ alt_ft < Ft(5000)
                /\ (distance_to_khnd < Km(5) \/ distance_to_kvgt < Km(5))
                /\ dest \notin {"LAS", "KLAS"} THEN "skip"
        ELSE IF is_arrival THEN "arrival"
        ELSE IF is_departure THEN "departure"
        ELSE "skip"

\* the tuple (f, atype, route_info, alt_ft) appended to a list
entry(f) ==
    LET call == upper(strip(Val(f.callsign)))
    IN  [f |-> f, atype |-> get_aircraft_type(f.icao24, call),
         route_info |-> get_live_route(call), alt_ft |-> alt_ft_of(f)]

\* the entries of the vectors of data that go to the list named, in the
\* order of data
appended(data, list) ==
    LET sel == SelectSeq(data, LAMBDA f : classify(f) = list)
    IN  [i \in 1..Len(sel) |-> entry(sel[i])]

\* a list left in the order of its appends
keep_order(list) == list

\* a list that keeps its entries
not_cleared(list) == list

\* list.clear()
cleared(list) == << >>

\* the vectors of the entries of the two lists
listed(arrivals, departures) ==
    {arrivals[i].f : i \in DOMAIN arrivals} \cup {departures[i].f : i \in DOMAIN departures}

\* list.sort(key=lambda x: x[3]): ascending by altitude, equal keys keep
\* their order
RECURSIVE sort_by_alt(_)
sort_by_alt(list) ==
    IF list = << >> THEN << >>
    ELSE LET n == Len(list)
             e == list[n]
             head == sort_by_alt(SubSeq(list, 1, n - 1))
             k == Cardinality({i \in DOMAIN head : head[i].alt_ft <= e.alt_ft})
         IN  SubSeq(head, 1, k) \o <<e>> \o SubSeq(head, k + 1, Len(head))

(***************************************************************************)
(* What fetch_opensky can return.                                          *)
(***************************************************************************)
MaxBatch == 2

S13 == <<35990, -115250>>
HND == <<35980, -115130>>
VGT == <<36200, -115190>>
N21 == <<36250, -115050>>
E35 == <<36080, -114763>>
E50 == <<36080, -114596>>
E90 == <<36080, -114150>>

StateVector(icao24, callsign, pos, baro_altitude, velocity, true_track, vertical_rate) ==
    [len |-> 17, icao24 |-> icao24, callsign |-> Some(callsign),
     longitude |-> Some(pos[2]), latitude |-> Some(pos[1]),
     baro_altitude |-> Some(baro_altitude), velocity |-> Some(velocity),
     true_track |-> Some(true_track), vertical_rate |-> Some(vertical_rate)]

\* vectors that are short or carry null where the loop reads a field
ShortVector == [StateVector("abcdef", "N123AB  ", E50, 2438, 100, 280164, -25) EXCEPT !.len = 5]

NullCallsign ==
    [StateVector("abcdef", "N123AB  ", E50, 2438, 100, 280164, -25) EXCEPT !.callsign = None]

MalformedVectors ==
    { ShortVector,
      NullCallsign,
      [StateVector("abcdef", "N123AB  ", E50, 2438, 100, 280164, -25) EXCEPT !.true_track = None],
      [StateVector("abcdef", "N123AB  ", E50, 2438, 100, 280164, -25) EXCEPT !.baro_altitude = None],
      [StateVector("abcdef", "N123AB  ", E50, 2438, 100, Deg(300), -25)
          EXCEPT !.latitude = None, !.longitude = None] }

StateVectors ==
    { StateVector("a1b2c3", "SWA100  ", N21, 1500, 100, Deg(90), 50),
      StateVector("a1b2c3", "SWA100  ", E50, 3000, 100, Deg(270), 50),
      StateVector("ffffff", "DAL5    ", S13, 3000, 100, Deg(41), -50),
      StateVector("ffffff", "DAL5    ", S13, 1500, 100, Deg(221), 50),
      StateVector("abcdef", "N123AB  ", E90, 3000, 100, Deg(90), -50),
      StateVector("abcdef", "N123AB  ", E35, 3000, 100, Deg(90), 50),
      StateVector("abcdef", "N123AB  ", E50, 2438, 100, 280164, -25),
      StateVector("abcdef", "N123AB  ", E90, 4000, 100, 270295, -50),
      StateVector("abcdef", "N123AB  ", E90, 4000, 100, 270295, 0),
      StateVector("abcdef", "N123AB  ", HND, 1200, 100, Deg(0), -30),
      StateVector("abcdef", "N123AB  ", VGT, 1500, 100, Deg(166), -30),
      StateVector("abcdef", "N123AB  ", E50, 2438, 50, 280164, -25),
      StateVector("c0ffee", "N123AB  ", S13, 1500, 100, Deg(41), -30),
      StateVector("a1b2c3", "SWA100  ", E50, 3000, 50, Deg(270), -25),
      StateVector("a1b2c3", "SWA100  ", E50, 5000, 100, Deg(270), -25),
      StateVector("c0ffee", "DAL5    ", S13, 1500, 100, Deg(221), 50),
      StateVector("c25a00", "SWA100  ", E50, 3000, 100, Deg(270), -25) }
    \cup MalformedVectors

\* the rows the two schedule tables show while the poll is studied
PollRow(ident, t) ==
    [ident |-> ident, from_to |-> "Phoenix Sky Harbor Intl (PHX)",
     depart_time |-> ClockText(t + 10), arrive_time |-> ClockText(t + 10),
     status_text |-> NoStatus]

PollArrivals(t) == {PollRow("SWA100", t)}

PollDepartures(t) == {PollRow("DAL5", t)}

(***************************************************************************)
(* tracker.py: the main loop with its poll.                                *)
(***************************************************************************)
poll_fetch_airport_routes == trk_Fetch(PollArrivals(now), PollDepartures(now), {0})

\* the vectors that come in pairs, and the batches fetch_opensky returns
PairVectors ==
    { StateVector("abcdef", "N123AB  ", E90, 4000, 100, 270295, -50),
      StateVector("abcdef", "N123AB  ", E50, 2438, 100, 280164, -25),
      StateVector("ffffff", "DAL5    ", S13, 1500, 100, Deg(221), 50),
      StateVector("abcdef", "N123AB  ", E35, 3000, 100, Deg(90), 50),
      StateVector("a1b2c3", "SWA100  ", E50, 3000, 50, Deg(270), -25),
      StateVector("c25a00", "SWA100  ", E50, 3000, 100, Deg(270), -25),
      ShortVector,
      NullCallsign }

Batches == {<<f>> : f \in StateVectors} \cup SeqsUpTo(PairVectors, MaxBatch)

\* "call = f[1].strip().upper()" raises AttributeError for a null callsign
strip_raises(f) == f.len >= 13 /\ f.callsign = None

\* the places of data whose vector makes the loop raise
raising(data) == {i \in DOMAIN data : strip_raises(data[i])}

\* "if time.time() - last_fetch_time >= refresh_seconds": fetch_opensky,
\* the classification of every vector, the two sorts
trk_Poll ==
    /\ trk_pc = "loop"
    /\ ~RefreshDue
    /\ \E data \in Batches :
         /\ raising(data) = {}
         /\ raw_data' = data
         /\ current_arrivals' =
                sort_by_alt(cleared(current_arrivals) \o appended(data, "arrival"))
         /\ current_departures' =
                sort_by_alt(cleared(current_departures) \o appended(data, "departure"))
    /\ listed_before' = listed(current_arrivals, current_departures)
    /\ trk_pc' = "polled"
    /\ board' = << >>
    /\ UNCHANGED <<now, srv_vars, route_cache, last_route_fetch, trk_cycles,
                   trk_current_time, trk_new_routes, trk_pre_merge, trk_offered,
                   rwy_call, rwy_result, look_vars>>

\* the same poll when a vector of the batch makes the loop raise: the lists
\* hold what was appended before it, the sorts are not reached, and nothing
\* catches the exception
trk_PollRaises ==
    /\ trk_pc = "loop"
    /\ ~RefreshDue
    /\ \E data \in Batches :
         /\ raising(data) # {}
         /\ LET k == CHOOSE i \in raising(data) : \A j \in raising(data) : i <= j
                before == SubSeq(data, 1, k - 1)
            IN  /\ raw_data' = data
                /\ current_arrivals' =
                       cleared(current_arrivals) \o appended(before, "arrival")
                /\ current_departures' =
                       cleared(current_departures) \o appended(before, "departure")
    /\ listed_before' = listed(current_arrivals, current_departures)
    /\ trk_pc' = "raised_poll"
    /\ board' = << >>
    /\ UNCHANGED <<now, srv_vars, route_cache, last_route_fetch, trk_cycles,
                   trk_current_time, trk_new_routes, trk_pre_merge, trk_offered,
                   rwy_call, rwy_result, look_vars>>

\* the response has "states": null: r.json().get('states', []) is None and
\* "{f[0] for f in raw_data if f}" raises TypeError before the lists are cleared
trk_PollNoStates ==
    /\ trk_pc = "loop"
    /\ ~RefreshDue
    /\ raw_data' = None
    /\ trk_pc' = "raised_states"
    /\ UNCHANGED <<now, srv_vars, route_cache, last_route_fetch, trk_cycles,
                   trk_current_time, trk_new_routes, trk_pre_merge, trk_offered,
                   current_arrivals, current_departures, board, rwy_call, rwy_result,
                   look_vars, listed_before>>

\* draw_sec(current_arrivals, ..., True): the rows of flights[:4] with the
\* runway get_runway(f_data[6], f_data[5], f_data[10], f_data[7]) gives; the
\* fourth argument is the altitude field as the telemetry gives it, in metres
shown(flights) == SubSeq(flights, 1, IF Len(flights) < 4 THEN Len(flights) ELSE 4)

raw_altitude(f) == IF f.baro_altitude = None THEN None ELSE Some(Ft(Val(f.baro_altitude)))

draw_raises(pkg) ==
    get_runway_raises(pkg.f.latitude, pkg.f.longitude, pkg.f.true_track, raw_altitude(pkg.f))

drawn(pkg) ==
    [f |-> pkg.f,
     rwy |-> get_runway(pkg.f.latitude, pkg.f.longitude, pkg.f.true_track, raw_altitude(pkg.f))]

\* the drawing pass that ends the iteration of the main loop
trk_Draw ==
    /\ trk_pc = "polled"
    /\ \A i \in DOMAIN shown(current_arrivals) : ~draw_raises(current_arrivals[i])
    /\ board' = [i \in DOMAIN shown(current_arrivals) |-> drawn(current_arrivals[i])]
    /\ listed_before' = {}
    /\ trk_pc' = "loop"
    /\ UNCHANGED <<now, srv_vars, route_cache, last_route_fetch, trk_cycles,
                   trk_current_time, trk_new_routes, trk_pre_merge, trk_offered,
                   raw_data, current_arrivals, current_departures, rwy_call, rwy_result,
                   look_vars>>

\* the drawing pass when get_runway raises for a listed arrival: nothing
\* catches the TypeError
trk_DrawRaises ==
    /\ trk_pc = "polled"
    /\ \E i \in DOMAIN shown(current_arrivals) :
         /\ draw_raises(current_arrivals[i])
         /\ \A j \in 1..(i - 1) : ~draw_raises(current_arrivals[j])
         /\ board' = [j \in 1..(i - 1) |-> drawn(current_arrivals[j])]
    /\ trk_pc' = "raised_draw"
    /\ UNCHANGED <<now, srv_vars, route_cache, last_route_fetch, trk_cycles,
                   trk_current_time, trk_new_routes, trk_pre_merge, trk_offered,
                   raw_data, current_arrivals, current_departures, rwy_call, rwy_result,
                   look_vars, listed_before>>

\* The main loop idles, polling or not, until the next route refresh is due
trk_Idle ==
    /\ trk_pc = "loop"
    /\ ~RefreshDue
    /\ trk_cycles < MaxCycles
    /\ now' = last_route_fetch + ROUTE_REFRESH_MINUTES
    /\ UNCHANGED <<srv_vars, trk_vars, poll_vars>>

PollInit == now = DayStart /\ SrvIdle /\ TrkIdle

PollNext ==
    \/ poll_fetch_airport_routes
    \/ trk_DriverFails
    \/ trk_Fetched
    \/ trk_Poll
    \/ trk_PollRaises
    \/ trk_PollNoStates
    \/ trk_Draw
    \/ trk_DrawRaises
    \/ trk_Idle

SpecPoll == PollInit /\ [][PollNext]_vars

(***************************************************************************)
(* Classification: claims.  All are read in the state a poll leaves, where *)
(* the route cache is still the one the poll looked up.                    *)
(***************************************************************************)
InList(list, f) == \E i \in DOMAIN list : list[i].f = f

Polled == {raw_data[i] : i \in DOMAIN raw_data}

route_of(f) == get_live_route(Val(f.callsign))

Scheduled(f) == IsRouteRecord(route_of(f))

\* f is a well-formed vector that the speed, altitude and type filters keep
IsTraffic(f) ==
    /\ f.len >= 13
    /\ f.callsign # None
    /\ upper(strip(Val(f.callsign))) # ""
    /\ spd_kt_of(f) >= Kt(130)
    /\ alt_ft_of(f) <= Ft(15000)
    /\ ~is_ignored_type(get_aircraft_type(f.icao24, upper(strip(Val(f.callsign)))))

dist_to_las(f) ==
    calculate_distance(OrZero(f.latitude), OrZero(f.longitude), LAS_LAT, LAS_LON)

off_bearing(f) ==
    heading_diff(OrZero(f.true_track),
                 calculate_bearing(OrZero(f.latitude), OrZero(f.longitude), LAS_LAT, LAS_LON))

\* descending, below 15,000 ft, within 60 km or heading within 120 degrees
GeometricArrival(f) ==
    /\ OrZero(f.vertical_rate) < 0
    /\ alt_ft_of(f) < Ft(15000)
    /\ (dist_to_las(f) < Km(60) \/ off_bearing(f) < Deg(120))

\* climbing, below 10,000 ft, within 30 km
GeometricDeparture(f) ==
    /\ OrZero(f.vertical_rate) > 0
    /\ alt_ft_of(f) < Ft(10000)
    /\ dist_to_las(f) < Km(30)

\* north of 36.15 below 6,000 ft
NorthernLow(f) == OrZero(f.latitude) > 36150 /\ alt_ft_of(f) < Ft(6000)

\* descending below 5,000 ft within 5 km of a satellite field
SatelliteLow(f) ==
    /\ OrZero(f.vertical_rate) < 0
    /\ alt_ft_of(f) < Ft(5000)
    /\ \/ calculate_distance(OrZero(f.latitude), OrZero(f.longitude), KHND_LAT, KHND_LON) < Km(5)
       \/ calculate_distance(OrZero(f.latitude), OrZero(f.longitude), KVGT_LAT, KVGT_LON) < Km(5)

C8_ScheduledDepartureListed ==
    trk_pc = "polled" =>
        \A f \in Polled :
            IsTraffic(f) /\ route_of(f).origin = "LAS" =>
                InList(current_departures, f) /\ ~InList(current_arrivals, f)

\* C9: after a poll, a polled vector with no schedule record that satisfies
\* neither the geometric arrival test nor the geometric departure test is in
\* neither list.
C9_UnscheduledNeedsGeometry ==
    trk_pc = "polled" =>
        \A f \in Polled :
            ~Scheduled(f) /\ ~GeometricArrival(f) /\ ~GeometricDeparture(f) =>
                ~InList(current_arrivals, f) /\ ~InList(current_departures, f)

\* C10: after a poll, a polled vector with no schedule record that the
\* filters keep (speed, altitude, type, northern field, satellite fields) and
\* that is descending below 15,000 ft, within 60 km of LAS or heading within
\* 120 degrees of the bearing to it, is in the arrivals list.
C10_GeometricArrivalListed ==
    trk_pc = "polled" =>
        \A f \in Polled :
            /\ IsTraffic(f)
            /\ ~Scheduled(f)
            /\ ~NorthernLow(f)
            /\ ~SatelliteLow(f)
            /\ GeometricArrival(f)
            => InList(current_arrivals, f)

\* C10 witness: an unscheduled aircraft 50 km out at 8,000 ft, 10 degrees off
\* the bearing and descending, is in the arrivals list; so is another 90 km
\* out at 13,000 ft that only its heading qualifies
C10_Witness ==
    /\ trk_pc = "polled"
    /\ \E f \in Polled :
         /\ ~Scheduled(f)
         /\ <<OrZero(f.latitude), OrZero(f.longitude)>> = E50
         /\ off_bearing(f) = Deg(10)
         /\ alt_ft_of(f) < Ft(8000) /\ alt_ft_of(f) > Ft(7990)
         /\ InList(current_arrivals, f)
    /\ \E f \in Polled :
         /\ ~Scheduled(f)
         /\ dist_to_las(f) >= Km(60)
         /\ alt_ft_of(f) >= Ft(12000)
         /\ InList(current_arrivals, f)

(***************************************************************************)
(* get_runway called on its own, over sample arguments.                    *)
(***************************************************************************)
RunwayPositions == {S13, HND, VGT, N21, E35, E50, E90}

RunwayHeadings ==
    {Some(h) : h \in {Deg(0), Deg(41), 41158, Deg(45), Deg(90), Deg(166), Deg(206),
                      Deg(270), Deg(350), Deg(401)}}
    \cup {None}

RunwayAltitudes == {Ft(4921), Ft(6999), Ft(7000), Ft(9842)}

rwy_Call ==
    /\ rwy_call = None
    /\ \E pos \in RunwayPositions, hdg \in RunwayHeadings, alt_ft \in RunwayAltitudes :
         /\ rwy_call' = Some([lat |-> Some(pos[1]), lon |-> Some(pos[2]),
                              hdg |-> hdg, alt_ft |-> Some(alt_ft)])
         /\ rwy_result' =
              IF get_runway_raises(Some(pos[1]), Some(pos[2]), hdg, Some(alt_ft))
              THEN Some("TypeError")
              ELSE Some(get_runway(Some(pos[1]), Some(pos[2]), hdg, Some(alt_ft)))
    /\ UNCHANGED <<now, srv_vars, trk_vars, raw_data, current_arrivals,
                   current_departures, board, look_vars, listed_before>>

rwy_Return ==
    /\ rwy_call # None
    /\ rwy_call' = None
    /\ rwy_result' = None
    /\ UNCHANGED <<now, srv_vars, trk_vars, raw_data, current_arrivals,
                   current_departures, board, look_vars, listed_before>>

RunwayInit == now = DayStart /\ SrvIdle /\ TrkIdle

RunwayNext == rwy_Call \/ rwy_Return

SpecRunway == RunwayInit /\ [][RunwayNext]_vars

(***************************************************************************)
(* get_runway: claims.                                                     *)
(***************************************************************************)
\* the call of get_runway the state shows, when its arguments are all numbers
RunwayCalled ==
    /\ rwy_call # None
    /\ ~get_runway_raises(Val(rwy_call).lat, Val(rwy_call).lon, Val(rwy_call).hdg,
                          Val(rwy_call).alt_ft)

called_lat == Val(Val(rwy_call).lat)
called_lon == Val(Val(rwy_call).lon)
called_hdg == Val(Val(rwy_call).hdg) % Deg(360)
called_alt_ft == Val(Val(rwy_call).alt_ft)

called_off_bearing ==
    heading_diff(called_hdg, calculate_bearing(called_lat, called_lon, LAS_LAT, LAS_LON))

called_in_range ==
    /\ calculate_distance(called_lat, called_lon, LAS_LAT, LAS_LON) <= Km(40)
    /\ called_alt_ft < Ft(7000)

\* the i-th runway of the table is at the minimum angular difference
called_minimal(i) ==
    \A j \in DOMAIN RUNWAY_THRESHOLDS :
        r_diff(called_lat, called_lon, called_hdg, i)
            <= r_diff(called_lat, called_lon, called_hdg, j)

\* C14: within 40 km and below 7,000 ft, a heading less than 90 degrees off
\* the bearing to the airport gives the first runway of the table among those
\* at the minimum angular difference to the heading; a heading 90 degrees or
\* more off gives no prediction.
C14_ClosestRunwayFirstWins ==
    RunwayCalled /\ called_in_range =>
        IF called_off_bearing >= Deg(90) THEN Val(rwy_result) = ""
        ELSE \E i \in DOMAIN RUNWAY_THRESHOLDS :
                /\ Val(rwy_result) = RUNWAY_THRESHOLDS[i].rwy
                /\ called_minimal(i)
                /\ \A j \in 1..(i - 1) : ~called_minimal(j)

\* C14 witness: two runways tie for the minimum and the earlier one is returned
C14_Witness ==
    /\ RunwayCalled
    /\ called_in_range
    /\ called_off_bearing < Deg(90)
    /\ \E i, j \in DOMAIN RUNWAY_THRESHOLDS :
         /\ i < j
         /\ called_minimal(i)
         /\ called_minimal(j)
         /\ Val(rwy_result) = RUNWAY_THRESHOLDS[i].rwy

(***************************************************************************)
(* Filters, display and failures of the poll: claims.                      *)
(***************************************************************************)
\* f has the fields the loop reads
WellFormed(f) ==
    /\ f.len >= 13
    /\ None \notin {f.callsign, f.true_track, f.baro_altitude, f.latitude, f.longitude}

type_of(f) == upper(get_aircraft_type(f.icao24, upper(strip(Val(f.callsign)))))

\* the type code is in the helicopter/light-aircraft set or begins with one
\* of its prefix families
TypeExcluded(f) ==
    \/ type_of(f) \in ignored_types
    \/ prefixes(type_of(f)) \cap (heli_prefixes \cup light_prefixes) # {}

Unlisted(f) == ~InList(current_arrivals, f) /\ ~InList(current_departures, f)

\* C11: after a poll, a polled vector slower than 130 kt, or above 15,000 ft,
\* or of an excluded type is in neither list, whatever the route cache says
\* of its callsign.
C11_ExcludedOutright ==
    trk_pc = "polled" =>
        \A f \in Polled :
            /\ WellFormed(f)
            /\ (spd_kt_of(f) < Kt(130) \/ alt_ft_of(f) > Ft(15000) \/ TypeExcluded(f))
            => Unlisted(f)

\* C11 witness: a poll has left out three vectors whose callsign the cache
\* resolves to an arrival at LAS: one too slow or too high, one of a type in
\* the set, one of a type of a prefix family only
C11_Witness ==
    /\ trk_pc = "polled"
    /\ \E f \in Polled :
         /\ WellFormed(f) /\ route_of(f).dest = "LAS" /\ Unlisted(f)
         /\ (spd_kt_of(f) < Kt(130) \/ alt_ft_of(f) > Ft(15000))
    /\ \E f \in Polled :
         /\ WellFormed(f) /\ route_of(f).dest = "LAS" /\ Unlisted(f)
         /\ spd_kt_of(f) >= Kt(130) /\ alt_ft_of(f) <= Ft(15000)
         /\ type_of(f) \notin ignored_types

\* C12: after a poll, a polled vector north of 36.15 below 6,000 ft is in
\* neither list.
C12_NorthernLowExcluded ==
    trk_pc = "polled" =>
        \A f \in Polled : WellFormed(f) /\ NorthernLow(f) => Unlisted(f)

\* C13: every arrival row drawn for an aircraft more than 40 km from LAS or at
\* or above 7,000 ft shows no runway.
C13_NoRunwayFarOrHigh ==
    \A i \in DOMAIN board :
        dist_to_las(board[i].f) > Km(40) \/ alt_ft_of(board[i].f) >= Ft(7000)
            => board[i].rwy = ""

Sorted(list) ==
    \A i, j \in DOMAIN list : i < j => list[i].alt_ft <= list[j].alt_ft

\* C15: unless the poll was cut short by an exception, both lists are in
\* non-decreasing order of altitude.
C15_ListsSorted ==
    trk_pc # "raised_poll" => Sorted(current_arrivals) /\ Sorted(current_departures)

\* C15 witness: the poll listed two arrivals of different altitude that the
\* telemetry gave in the other order
C15_Witness ==
    /\ trk_pc = "polled"
    /\ Len(current_arrivals) = 2
    /\ Len(raw_data) = 2
    /\ current_arrivals[1].alt_ft < current_arrivals[2].alt_ft
    /\ raw_data[1] = current_arrivals[2].f
    /\ raw_data[2] = current_arrivals[1].f

\* C18: no vector makes the poll or the drawing pass raise, and the
\* well-formed vectors of a batch are listed as they classify whatever else
\* the batch holds.
C18_MalformedDropped ==
    /\ trk_pc \notin {"raised_poll", "raised_draw"}
    /\ trk_pc \in {"polled", "raised_poll"} =>
          \A f \in Polled :
              WellFormed(f) =>
                  /\ classify(f) = "arrival" => InList(current_arrivals, f)
                  /\ classify(f) = "departure" => InList(current_departures, f)

\* C19: no failed provider call ends the main loop: neither a browser that
\* does not start nor a telemetry response without a state list.
C19_NoFatalFailure == trk_pc \notin {"crashed", "raised_states"}

\* C21: the two lists hold only vectors of the batch the last telemetry fetch
\* returned: an aircraft that is not in that batch is in neither list, and
\* after a fetch that failed, which returns the empty batch, both lists are
\* empty.  The response without a state list ends the program before the
\* lists are touched and is left out.
C21_NoCarryOver ==
    trk_pc # "raised_states" =>
        /\ listed(current_arrivals, current_departures) \subseteq Polled
        /\ raw_data = << >> => current_arrivals = << >> /\ current_departures = << >>

\* C21 witness: a poll found a vector listed by the poll before it missing
\* from its batch, listed another vector, and the missing one is in neither
\* list
C21_Witness ==
    /\ trk_pc = "polled"
    /\ listed(current_arrivals, current_departures) # {}
    /\ \E f \in listed_before :
         /\ f \notin Polled
         /\ ~InList(current_arrivals, f)
         /\ ~InList(current_departures, f)

\* "is_arrival" and "is_departure" of a vector: the schedule record's
\* destination or origin is LAS, or else the geometric test or the
\* vertical-rate rule for an aircraft without a record holds
ArrivalCondition(f) ==
    \/ route_of(f).dest \in {"LAS", "KLAS"}
    \/ GeometricArrival(f)
    \/ /\ OrZero(f.vertical_rate) < -5
       /\ alt_ft_of(f) < Ft(12000)
       /\ route_of(f).dest = "---"

DepartureCondition(f) ==
    \/ route_of(f).origin \in {"LAS", "KLAS"}
    \/ GeometricDeparture(f)
    \/ /\ OrZero(f.vertical_rate) > 5
       /\ alt_ft_of(f) < Ft(10000)
       /\ route_of(f).origin = "---"

\* C22: no vector is in both lists, and after a poll no vector of the
\* departures list satisfies the arrival condition: a vector that satisfies
\* both conditions goes to the arrivals list.
C22_AtMostOneList ==
    /\ \A i \in DOMAIN current_arrivals :
          ~InList(current_departures, current_arrivals[i].f)
    /\ trk_pc = "polled" =>
          \A i \in DOMAIN current_departures :
              ~ArrivalCondition(current_departures[i].f)

\* C22 witness: a polled vector that satisfies the arrival and the departure
\* condition is in the arrivals list and not in the departures list
C22_Witness ==
    /\ trk_pc = "polled"
    /\ \E i \in DOMAIN current_arrivals :
         LET f == current_arrivals[i].f IN
         /\ ArrivalCondition(f)
         /\ DepartureCondition(f)
         /\ ~InList(current_departures, f)

====
